---- MODULE Spec2Model ----
(***************************************************************************)
(* A TLA+ model of the GitHubRepoVisualization component                   *)
(* (src/app/components/github-repo-visualization.tsx): the scene composer  *)
(* (commit graph, contributor spheres, language donut), the pointer        *)
(* interaction layer, the camera director and the render loop.             *)
(*                                                                         *)
(* Numbers: the source computes in IEEE doubles.  The model computes in    *)
(* integers: angles and shares are kept as exact fractions over a common   *)
(* denominator, radii and camera coordinates are fixed-point values with   *)
(* flooring division.  JS null/undefined is the string Null.               *)
(***************************************************************************)
EXTENDS Integers, Sequences, FiniteSets, TLC

(***************************************************************************)
(* Bounds of the model.                                                    *)
(***************************************************************************)
MaxCommits == 2
MaxParents == 2
MaxDate == 2
MaxLangs == 3
MaxContributors == 3
MaxContribCount == 4
MaxLoads == 3
MaxTransitions == 2
MaxTime == 1500
TickMs == 250
MaxHits == 2
MaxPointer == 2
MaxBranches == 2
MaxNameLen == 6

(***************************************************************************)
(* Program constants (lines 11-38 of the component).                       *)
(***************************************************************************)
\* CONTRIBUTOR_SPHERE_MAX_RADIUS = 4 and CONTRIBUTOR_SPHERE_MIN_RADIUS = 0.5,
\* in thousandths.
CONTRIBUTOR_SPHERE_MAX_RADIUS == 4000
CONTRIBUTOR_SPHERE_MIN_RADIUS == 500
CONTRIBUTOR_GRID_SPACING == 8
\* lengths of the scene in thousandths of a unit (lines 10-29)
COMMIT_RADIUS == 500
HELIX_RADIUS == 25000
HELIX_PITCH == 5000
COMMITS_PER_LOOP == 12
HELIX_START_Y == 8000
DONUT_EXTRUDE_DEPTH == 3000
SIDE_VIS_X_OFFSET == 90000
SIDE_VIS_Z_POSITION == -40000
ICOSAHEDRON_RADIUS == 8000
\* cos and sin of the tilt -Math.PI / 10 of the donut group, in thousandths
CosTiltE3 == 951
SinTiltE3 == -309
\* cos and sin of k twelfths of a turn, in thousandths
CosTwelfth(k) ==
  <<1000, 866, 500, 0, -500, -866, -1000, -866, -500, 0, 500, 866>>[(k % 12) + 1]
SinTwelfth(k) == CosTwelfth(k + 9)
\* Math.PI * 2 and the 0.01 rad skip threshold, in ten-thousandths of a radian
TwoPiE4 == 62832
SkipThresholdE4 == 100

Null == "<null>"
Gray == -1

(***************************************************************************)
(* Generic helpers.                                                        *)
(***************************************************************************)
Min2(a, b) == IF a < b THEN a ELSE b
Max2(a, b) == IF a > b THEN a ELSE b

Range(s) == {s[i] : i \in 1..Len(s)}

SeqsUpTo(S, n) == UNION {[1..k -> S] : k \in 0..n}

RECURSIVE SumSeq(_)
SumSeq(s) == IF s = <<>> THEN 0 ELSE Head(s) + SumSeq(Tail(s))

\* Array.prototype.sort with a comparator is stable.  StableOrder(keys) is the
\* order of the indices of keys by ascending key, equal keys keeping their
\* input order (insertion of each index after the last one not greater).
RECURSIVE InsertIdx(_, _, _)
InsertIdx(order, i, keys) ==
  IF order = <<>> THEN <<i>>
  ELSE IF keys[i] < keys[Head(order)] THEN <<i>> \o order
       ELSE <<Head(order)>> \o InsertIdx(Tail(order), i, keys)

RECURSIVE StableOrderUpTo(_, _)
StableOrderUpTo(keys, n) ==
  IF n = 0 THEN <<>>
  ELSE InsertIdx(StableOrderUpTo(keys, n - 1), n, keys)

StableOrder(keys) == StableOrderUpTo(keys, Len(keys))

\* s rearranged in the stable ascending order of keys (keys[i] is the key of s[i])
SortedBy(s, keys) == [i \in 1..Len(s) |-> s[StableOrder(keys)[i]]]

\* floor(sqrt(n)) for 0 <= n < 2^31, by bisection on lo <= sqrt(n) < hi
RECURSIVE SqrtBetween(_, _, _)
SqrtBetween(n, lo, hi) ==
  IF hi - lo <= 1 THEN lo
  ELSE LET mid == (lo + hi) \div 2
       IN IF mid * mid <= n THEN SqrtBetween(n, mid, hi) ELSE SqrtBetween(n, lo, mid)

ISqrt(n) == SqrtBetween(n, 0, Min2(n + 1, 46341))

\* a JS object used as a map: a function from its keys; m[k] = v
MapSet(m, k, v) == [x \in (DOMAIN m) \cup {k} |-> IF x = k THEN v ELSE m[x]]
EmptyMap == [x \in {} |-> 0]

\* a string is falsy when it is null, undefined or empty
Falsy(str) == str = Null \/ str = ""

(***************************************************************************)
(* processData (lines 391-398): contributor colors.  A color is the hue in *)
(* hundredths of setHSL(hue, 0.6, 0.6); Gray is 0x888888.  The map is the  *)
(* object held by contributorColorsRef, which processData writes into.     *)
(***************************************************************************)
ContributorHue(index) == (index * 17) % 100

\* an assignment that keeps the color a login already has
RECURSIVE AssignColorsOnce(_, _, _)
AssignColorsOnce(colors, contributors, index) ==
  IF index >= Len(contributors) THEN colors
  ELSE AssignColorsOnce(IF contributors[index + 1].login \in DOMAIN colors THEN colors
                        ELSE MapSet(colors, contributors[index + 1].login, ContributorHue(index)),
                        contributors, index + 1)

RECURSIVE AssignColors(_, _, _)
AssignColors(colors, contributors, index) ==
  IF index >= Len(contributors) THEN colors
  ELSE AssignColors(MapSet(colors, contributors[index + 1].login, ContributorHue(index)),
                    contributors, index + 1)

processData(colors, contributors) ==
  MapSet(AssignColors(colors, contributors, 0), "null", Gray)

(***************************************************************************)
(* createCommitGraph (lines 441-643).  A commit is                         *)
(*   [sha, date, author, message, url, parents]                            *)
(* with author the login or Null, and parents a sequence of entries        *)
(* [shape, sha]: shape "object" is the {sha: ...} entry that line 551      *)
(* reads with p.sha, shape "string" a bare sha string.                     *)
(***************************************************************************)
EmissiveCreation == "color*0.2"
EmissiveBlack == "0x000000"
EmissiveGlow == "0x555555"

\* commitObjects[parentSha] (line 586): the entry itself is the property key,
\* and an object used as a property key is converted with String(): "[object Object]"
PropertyKey(parent) == IF parent.shape = "string" THEN parent.sha ELSE "[object Object]"

\* p.sha (line 551)
ParentSha(parent) == IF parent.shape = "object" THEN parent.sha ELSE Null

\* commitData.author?.login || null (line 492)
AuthorLogin(commit) == IF Falsy(commit.author) THEN Null ELSE commit.author

\* contributorColors[authorLogin || "null"] || contributorColors["null"] (line 493)
CommitColor(colors, commit) ==
  LET key == IF AuthorLogin(commit) = Null THEN "null" ELSE AuthorLogin(commit)
  IN IF key \in DOMAIN colors THEN colors[key] ELSE colors["null"]

ToLowerCase(str) ==
  [i \in 1..Len(str) |->
     CASE str[i] = "R" -> "r" [] str[i] = "E" -> "e" [] str[i] = "L" -> "l"
       [] str[i] = "A" -> "a" [] str[i] = "S" -> "s" [] str[i] = "V" -> "v"
       [] str[i] = "I" -> "i" [] str[i] = "O" -> "o" [] str[i] = "N" -> "n"
       [] str[i] = "M" -> "m" [] str[i] = "T" -> "t"
       [] OTHER -> str[i]]

Includes(str, word) ==
  \E i \in 1..(Len(str) - Len(word) + 1) : SubSeq(str, i, i + Len(word) - 1) = word

\* lines 519-521
IsSignificant(message) ==
  \/ Includes(ToLowerCase(message), <<"r", "e", "l", "e", "a", "s", "e">>)
  \/ Includes(ToLowerCase(message), <<"v", "e", "r", "s", "i", "o", "n">>)
  \/ Includes(ToLowerCase(message), <<"m", "i", "l", "e", "s", "t", "o", "n", "e">>)

SetMin(S) == CHOOSE x \in S : \A y \in S : x <= y
SetMax(S) == CHOOSE x \in S : \A y \in S : x >= y

\* commitAge < 0.1 (lines 489, 518, 527): with timeRange = 0 the quotient is
\* 0/0 = NaN, and NaN < 0.1 is false
IsEarly(commit, dates) ==
  LET timeRange == SetMax(dates) - SetMin(dates)
  IN timeRange # 0 /\ (commit.date - SetMin(dates)) * 10 < timeRange

\* lines 524-527, in thousandths
CommitScale(commit, dates) ==
  LET s1 == IF Len(commit.parents) > 1 THEN (1000 * 13) \div 10 ELSE 1000
      s2 == IF IsSignificant(commit.message) THEN (s1 * 15) \div 10 ELSE s1
  IN IF IsEarly(commit, dates) THEN (s2 * 12) \div 10 ELSE s2

\* the sphere of one commit (lines 492-554)
CommitMesh(colors, commit, dates) ==
  [ type |-> "commit",
    sha |-> commit.sha,
    color |-> CommitColor(colors, commit),
    emissive |-> EmissiveCreation,
    scale |-> CommitScale(commit, dates),
    message |-> commit.message,
    author |-> IF AuthorLogin(commit) = Null THEN "Unknown" ELSE AuthorLogin(commit),
    url |-> commit.url,
    parents |-> [i \in 1..Len(commit.parents) |-> ParentSha(commit.parents[i])],
    isSignificant |-> IsSignificant(commit.message),
    isMerge |-> Len(commit.parents) > 1 ]

\* lines 446-448
SortCommits(commits) == SortedBy(commits, [i \in 1..Len(commits) |-> commits[i].date])

\* commitObjects (lines 443, 556): sha -> index of the last sorted commit with that sha
CommitObjects(sorted) ==
  [sha \in {sorted[i].sha : i \in 1..Len(sorted)} |->
     SetMax({i \in 1..Len(sorted) : sorted[i].sha = sha})]

\* Object.values(commitObjects): one entry per key, keys in order of first insertion
RECURSIVE ObjectValuesFrom(_, _, _)
ObjectValuesFrom(sorted, i, seen) ==
  IF i > Len(sorted) THEN <<>>
  ELSE IF sorted[i].sha \in seen THEN ObjectValuesFrom(sorted, i + 1, seen)
       ELSE <<CommitObjects(sorted)[sorted[i].sha]>>
              \o ObjectValuesFrom(sorted, i + 1, seen \cup {sorted[i].sha})

ObjectValues(sorted) == ObjectValuesFrom(sorted, 1, {})

\* the tubes of one child (lines 585-639): one per parent entry whose key is a
\* key of commitObjects
RECURSIVE TubesOf(_, _, _)
TubesOf(child, objects, j) ==
  IF j > Len(child.parents) THEN <<>>
  ELSE (IF PropertyKey(child.parents[j]) \in DOMAIN objects
          THEN << [ child |-> child.sha,
                    parent |-> PropertyKey(child.parents[j]),
                    color |-> IF Len(child.parents) > 1 THEN "0x9966ff" ELSE "0x666666" ] >>
          ELSE <<>>)
       \o TubesOf(child, objects, j + 1)

RECURSIVE TubesFrom(_, _, _)
TubesFrom(sorted, values, k) ==
  IF k > Len(values) THEN <<>>
  ELSE TubesOf(sorted[values[k]], CommitObjects(sorted), 1) \o TubesFrom(sorted, values, k + 1)

createCommitGraph(commits, colors) ==
  LET sorted == SortCommits(commits)
      dates == {commits[i].date : i \in 1..Len(commits)}
  IN [ spheres |-> [i \in 1..Len(sorted) |-> CommitMesh(colors, sorted[i], dates)],
       glows |-> Cardinality({i \in 1..Len(sorted) : IsSignificant(sorted[i].message)}),
       commitObjects |-> CommitObjects(sorted),
       tubes |-> TubesFrom(sorted, ObjectValues(sorted), 1) ]

(***************************************************************************)
(* createBranchLabels (lines 646-700).  A branch is [name, sha], sha being *)
(* branch.commit.sha.  commitObjects is commitObjectsRef.current, which    *)
(* createCommitGraph has set (line 579) before createVisualizations calls  *)
(* createBranchLabels (lines 404-407).                                     *)
(***************************************************************************)
\* a label for every branch, found or not
RECURSIVE createBranchLabelsAll(_, _)
createBranchLabelsAll(branches, commitObjects) ==
  IF branches = <<>> THEN <<>>
  ELSE << [ type |-> "branch_label", name |-> Head(branches).name, sha |-> Head(branches).sha,
            mesh |-> 0 ] >>
       \o createBranchLabelsAll(Tail(branches), commitObjects)

RECURSIVE createBranchLabels(_, _)
createBranchLabels(branches, commitObjects) ==
  IF branches = <<>> THEN <<>>
  ELSE (IF Head(branches).sha \in DOMAIN commitObjects
          THEN << [ type |-> "branch_label", name |-> Head(branches).name,
                    sha |-> Head(branches).sha,
                    mesh |-> commitObjects[Head(branches).sha] ] >>
          ELSE <<>>)
       \o createBranchLabels(Tail(branches), commitObjects)

(***************************************************************************)
(* createContributorSpheres (lines 703-774).  A contributor is             *)
(* [login, contributions].  Radii are in thousandths.                      *)
(***************************************************************************)
\* line 707: sort by contributions, descending
SortContributors(contributors) ==
  SortedBy(contributors, [i \in 1..Len(contributors) |-> 0 - contributors[i].contributions])

\* the maximum taken from the unsorted input
MaxContributionsUnsorted(contributors) ==
  IF contributors[1].contributions = 0 THEN 1 ELSE contributors[1].contributions

\* line 708: sortedContributors[0]?.contributions || 1
MaxContributions(contributors) ==
  LET first == SortContributors(contributors)[1].contributions
  IN IF first = 0 THEN 1 ELSE first

\* line 709: sortedContributors[length - 1]?.contributions || 0
MinContributions(contributors) ==
  SortContributors(contributors)[Len(contributors)].contributions

\* the scale without the test of line 712: with max = min the quotient is 0 / 0,
\* and the radius NaN (here -1)
scaleRadiusUnguarded(contribs, maxContributions, minContributions) ==
  IF maxContributions = minContributions THEN 0 - 1
  ELSE LET scale == ISqrt((Max2(0, contribs - minContributions) * 1000000)
                            \div (maxContributions - minContributions))
       IN CONTRIBUTOR_SPHERE_MIN_RADIUS
            + (scale * (CONTRIBUTOR_SPHERE_MAX_RADIUS - CONTRIBUTOR_SPHERE_MIN_RADIUS)) \div 1000

\* lines 711-715
scaleRadius(contribs, maxContributions, minContributions) ==
  IF maxContributions = minContributions THEN CONTRIBUTOR_SPHERE_MIN_RADIUS
  ELSE LET scale == ISqrt((Max2(0, contribs - minContributions) * 1000000)
                            \div (maxContributions - minContributions))
       IN CONTRIBUTOR_SPHERE_MIN_RADIUS
            + (scale * (CONTRIBUTOR_SPHERE_MAX_RADIUS - CONTRIBUTOR_SPHERE_MIN_RADIUS)) \div 1000

\* Math.ceil(Math.sqrt(n)) (line 717)
CeilSqrt(n) == IF ISqrt(n) * ISqrt(n) = n THEN ISqrt(n) ELSE ISqrt(n) + 1

ContributorSphere(contributor, index, contributors, colors) ==
  LET gridCols == CeilSqrt(Len(contributors))
  IN [ type |-> "contributor_sphere",
       login |-> contributor.login,
       contributions |-> contributor.contributions,
       radius |-> scaleRadius(contributor.contributions,
                              MaxContributions(contributors), MinContributions(contributors)),
       color |-> IF contributor.login \in DOMAIN colors
                   THEN colors[contributor.login] ELSE colors["null"],
       emissive |-> EmissiveBlack,
       row |-> index \div gridCols,
       col |-> index % gridCols ]

createContributorSpheres(contributors, colors) ==
  IF Len(contributors) = 0 THEN <<>>
  ELSE [i \in 1..Len(contributors) |->
          ContributorSphere(SortContributors(contributors)[i], i - 1, contributors, colors)]

(***************************************************************************)
(* stringToColor (lines 1004-1016).  A string is the sequence of its char   *)
(* codes; the hash is a 32-bit signed integer, kept as two 16-bit halves    *)
(* while it is multiplied.  A color is [hue, saturation, lightness] with    *)
(* the hue in 360ths, the saturation as the twentieths and the lightness as *)
(* the fortieths added to 0.5.                                             *)
(***************************************************************************)
\* str.charCodeAt(i), for the names used here
CharCodes(str) ==
  CASE str = "Go" -> <<71, 111>>
    [] str = "Rust" -> <<82, 117, 115, 116>>
    [] str = "C" -> <<67>>
    [] str = "Zig" -> <<90, 105, 103>>
    [] str = "Lua" -> <<76, 117, 97>>
    [] str = "JavaScript" -> <<74, 97, 118, 97, 83, 99, 114, 105, 112, 116>>
    [] str = "Python" -> <<80, 121, 116, 104, 111, 110>>

\* hash = code + ((hash << 5) - hash); hash = hash & hash (lines 1007-1008):
\* code + 31 * hash, wrapped to 32 bits, signed
HashStep(hash, code) ==
  LET hi == (hash \div 65536) % 65536
      lo == hash % 65536
      x == 31 * lo + code
      lo2 == x % 65536
      hi2 == (31 * hi + (x \div 65536)) % 65536
  IN IF hi2 >= 32768 THEN (hi2 - 65536) * 65536 + lo2 ELSE hi2 * 65536 + lo2

RECURSIVE HashFrom(_, _, _)
HashFrom(codes, i, hash) ==
  IF i > Len(codes) THEN hash ELSE HashFrom(codes, i + 1, HashStep(hash, codes[i]))

\* hash % m without Math.abs: the remainder of JS has the sign of hash
SignedRem(hash, m) == IF hash >= 0 THEN hash % m ELSE 0 - ((m - (hash % m)) % m)

\* Math.abs(hash % m): the remainder of JS has the sign of hash
AbsRem(hash, m) == IF hash >= 0 THEN hash % m ELSE (m - (hash % m)) % m

\* lines 1010-1012
ColorOfHash(hash) ==
  [hue |-> AbsRem(hash, 360), saturation |-> AbsRem(hash, 11), lightness |-> AbsRem(hash, 21)]

stringToColor(str) == ColorOfHash(HashFrom(CharCodes(str), 1, 0))

(***************************************************************************)
(* createLanguageDonut (lines 777-851).  The language map is the sequence  *)
(* of its entries [name, bytes] in key order.  Angles are numerators over  *)
(* the denominator 4 * totalBytes of a full turn (2 pi): 12 o'clock, pi/2, *)
(* is totalBytes, and the sweep bytes / totalBytes * 2 pi is 4 * bytes.    *)
(***************************************************************************)
\* line 779
TotalBytes(languages) == SumSeq([i \in 1..Len(languages) |-> languages[i].bytes])

\* lines 782-784: entries with bytes > 0, by bytes descending
RECURSIVE PositiveLangs(_)
PositiveLangs(languages) ==
  IF languages = <<>> THEN <<>>
  ELSE IF Head(languages).bytes > 0
         THEN <<Head(languages)>> \o PositiveLangs(Tail(languages))
         ELSE PositiveLangs(Tail(languages))

\* entries with bytes > 0 in key order, not sorted
SortLangsKeyOrder(languages) == PositiveLangs(languages)

SortLangs(languages) ==
  LET positive == PositiveLangs(languages)
  IN SortedBy(positive, [i \in 1..Len(positive) |-> 0 - positive[i].bytes])

\* the share, not the sweep, compared with 0.01
SkipSegmentByShare(bytes, totalBytes) == bytes * 100 < totalBytes

\* line 793: angleSweep < 0.01, with angleSweep = bytes / totalBytes * 2 pi
SkipSegment(bytes, totalBytes) == bytes * TwoPiE4 < SkipThresholdE4 * totalBytes

\* lines 790-835: the segments drawn from sorted[k..], the first at currentAngle
RECURSIVE SegmentsFrom(_, _, _, _)
SegmentsFrom(sorted, k, currentAngle, totalBytes) ==
  IF k > Len(sorted) THEN <<>>
  ELSE IF SkipSegment(sorted[k].bytes, totalBytes)
         THEN SegmentsFrom(sorted, k + 1, currentAngle, totalBytes)
         ELSE << [ type |-> "language_segment",
                   name |-> sorted[k].name,
                   bytes |-> sorted[k].bytes,
                   color |-> stringToColor(sorted[k].name),
                   start |-> currentAngle,
                   sweep |-> 4 * sorted[k].bytes,
                   label |-> currentAngle + 2 * sorted[k].bytes,
                   emissive |-> EmissiveBlack ] >>
              \o SegmentsFrom(sorted, k + 1, currentAngle + 4 * sorted[k].bytes, totalBytes)

createLanguageDonut(languages) ==
  IF TotalBytes(languages) = 0 THEN <<>>
  ELSE SegmentsFrom(SortLangs(languages), 1, TotalBytes(languages), TotalBytes(languages))

(***************************************************************************)
(* The state of the component.                                             *)
(***************************************************************************)
VARIABLES
  phase,             \* "initial", "mounted", "unmounted"; "input"/"composed" when one
                     \* composer function is run on its own
  repoData,          \* the repoData prop
  build,             \* number of runs of the [repoData] effect: the scene, camera,
                     \* renderers and controls held by the refs are those of this run
  contributorColors, \* contributorColorsRef.current
  scene,             \* what createVisualizations put into sceneRef.current
  container,         \* the children of the container element, in order
  controlsLive,      \* the builds whose OrbitControls still listen on their canvas
  emissive,          \* material.emissive of each tagged mesh of the current scene
  hoverLabels,       \* the hover description labels attached to the current scene
  hoverLabelRef,     \* hoverLabelRef.current
  hoveredObject,     \* the hoveredObject state: the value last given to setHoveredObject
  handler,           \* the pointer handlers registered on window and the hoveredObject
                     \* their closure captured
  underPointer,      \* the object the most recent pointer move resolved
  tooltip,           \* the #tooltip element: display, content, position
  lastOpen,          \* what the click since the last pointer move gave to window.open
  activeView,        \* the activeView state
  cameraPos,         \* cameraRef.current.position
  controlsTarget,    \* controlsRef.current.target
  rendered,          \* the camera position of the most recent render pass
  rafQueue,          \* the pending requestAnimationFrame callbacks, in order
  animationFrameRef, \* animationFrameRef.current (0 is null)
  now,               \* Date.now(), in ms since the page loaded
  navButtons,        \* style.background of each button of the newest navigation bar
  navActiveView,     \* the activeView that the listeners of those buttons captured
  pointerOn,         \* the button that got mouseenter and no mouseleave yet, or "none"
  colorCall          \* one call of stringToColor: the string, the characters read,
                     \* the running hash and, once done, the color

dataVars == <<repoData, build, contributorColors, scene>>
domVars == <<container, controlsLive>>
hoverVars == <<emissive, hoverLabels, hoverLabelRef, hoveredObject, handler, underPointer,
               tooltip, lastOpen>>
cameraVars == <<activeView, cameraPos, controlsTarget, rendered>>
loopVars == <<rafQueue, animationFrameRef>>
navVars == <<navButtons, navActiveView, pointerOn>>
componentVars == <<container, controlsLive, emissive, hoverLabels, hoverLabelRef, hoveredObject,
                   handler, underPointer, tooltip, lastOpen, activeView, cameraPos,
                   controlsTarget, rendered, rafQueue, animationFrameRef, now, navButtons,
                   navActiveView, pointerOn, colorCall>>

vars == <<phase, repoData, build, contributorColors, scene, container, controlsLive, emissive,
          hoverLabels, hoverLabelRef, hoveredObject, handler, underPointer, tooltip, lastOpen,
          activeView, cameraPos, controlsTarget, rendered, rafQueue, animationFrameRef, now,
          navButtons, navActiveView, pointerOn, colorCall>>

EmptyScene == [commitGraph |-> [spheres |-> <<>>, glows |-> 0,
                                commitObjects |-> EmptyMap, tubes |-> <<>>],
               branchLabels |-> <<>>,
               contributorSpheres |-> <<>>,
               languageDonut |-> <<>>]

NoData == [commits |-> <<>>, branches |-> <<>>, contributors |-> <<>>, languages |-> <<>>]

\* a scene object, as the handlers see it: the scene (build) it belongs to, its
\* userData.type (for an untagged object, a name of what it is), its index among
\* the objects of its type, and the userData it opens on click (url or login)
NoObject == [build |-> 0, type |-> "none", idx |-> 0, link |-> ""]

NoLabel == [for |-> NoObject, scene |-> 0, position |-> <<0, 0, 0>>]

NoOpen == [clicked |-> FALSE, kind |-> "none", value |-> ""]

\* no call of stringToColor
NoCall == [str |-> <<>>, i |-> 0, hash |-> 0, done |-> FALSE,
           color |-> [hue |-> 0, saturation |-> 0, lightness |-> 0]]

\* CAMERA_PRESETS (lines 33-38)
Views == <<"overview", "commitHistory", "languages", "contributors">>

CAMERA_PRESETS ==
  [ overview |-> [position |-> <<30, 40, 80>>, target |-> <<0, 20, 0>>],
    commitHistory |-> [position |-> <<0, 30, 60>>, target |-> <<0, 20, 0>>],
    languages |-> [position |-> <<-110, 20, -20>>, target |-> <<-90, 5, -40>>],
    contributors |-> [position |-> <<110, 20, -20>>, target |-> <<90, 5, -40>>] ]

\* the component before it is mounted
Unmounted ==
  /\ container = <<>>
  /\ controlsLive = {}
  /\ emissive = EmptyMap
  /\ hoverLabels = <<>>
  /\ hoverLabelRef = NoLabel
  /\ hoveredObject = NoObject
  /\ handler = [registered |-> FALSE, hovered |-> NoObject]
  /\ underPointer = NoObject
  /\ tooltip = [display |-> FALSE, content |-> NoObject, at |-> 0]
  /\ lastOpen = NoOpen
  /\ activeView = "overview"
  /\ cameraPos = <<0, 0, 0>>
  /\ controlsTarget = <<0, 0, 0>>
  /\ rendered = <<0, 0, 0>>
  /\ rafQueue = <<>>
  /\ animationFrameRef = 0
  /\ now = 0
  /\ navButtons = EmptyMap
  /\ navActiveView = "overview"
  /\ pointerOn = "none"
  /\ colorCall = NoCall

(***************************************************************************)
(* The composer functions on their own: Init draws the input, the action   *)
(* applies the function.                                                   *)
(***************************************************************************)
\* stringToColor, one pass of its loop at a time.  The strings: every sequence
\* of up to MaxNameLen of three char codes, "+", "a" and the largest code
\* unit, and a language name whose hash is known to end negative
NameCodes == {43, 97, 65535}
NameInputs == SeqsUpTo(NameCodes, MaxNameLen) \cup {CharCodes("Python")}

InitStringToColor ==
  /\ phase = "input"
  /\ repoData = NoData
  /\ build = 0
  /\ contributorColors = EmptyMap
  /\ scene = EmptyScene
  /\ container = <<>>
  /\ controlsLive = {}
  /\ emissive = EmptyMap
  /\ hoverLabels = <<>>
  /\ hoverLabelRef = NoLabel
  /\ hoveredObject = NoObject
  /\ handler = [registered |-> FALSE, hovered |-> NoObject]
  /\ underPointer = NoObject
  /\ tooltip = [display |-> FALSE, content |-> NoObject, at |-> 0]
  /\ lastOpen = NoOpen
  /\ activeView = "overview"
  /\ cameraPos = <<0, 0, 0>>
  /\ controlsTarget = <<0, 0, 0>>
  /\ rendered = <<0, 0, 0>>
  /\ rafQueue = <<>>
  /\ animationFrameRef = 0
  /\ now = 0
  /\ navButtons = EmptyMap
  /\ navActiveView = "overview"
  /\ pointerOn = "none"
  /\ colorCall \in {[NoCall EXCEPT !.str = str] : str \in NameInputs}

\* one pass of the loop (lines 1006-1009)
HashChar ==
  /\ phase = "input"
  /\ colorCall.i < Len(colorCall.str)
  /\ colorCall' = [colorCall EXCEPT !.i = @ + 1,
                                    !.hash = HashStep(@, colorCall.str[colorCall.i + 1])]
  /\ UNCHANGED <<phase, dataVars, domVars, hoverVars, cameraVars, loopVars, now, navVars>>

\* the loop has ended: the color (lines 1010-1015)
FinishColor ==
  /\ phase = "input"
  /\ colorCall.i = Len(colorCall.str)
  /\ phase' = "composed"
  /\ colorCall' = [colorCall EXCEPT !.done = TRUE, !.color = ColorOfHash(colorCall.hash)]
  /\ UNCHANGED <<dataVars, domVars, hoverVars, cameraVars, loopVars, now, navVars>>

NextStringToColor == HashChar \/ FinishColor

SpecStringToColor == InitStringToColor /\ [][NextStringToColor]_vars

Shas == <<"a", "b", "c">>
AbsentSha == "x"
PlainMessage == <<"f", "i", "x">>

\* commit k of an input has sha Shas[k]; its parents name any sha of the input
\* range or the absent one
ParentEntries(shape) == {[shape |-> shape, sha |-> x] : x \in {Shas[1], Shas[2], AbsentSha}}

CommitsOfShape(shape) ==
  UNION { { [k \in 1..n |-> [ sha |-> Shas[k], date |-> dates[k], author |-> Null,
                              message |-> PlainMessage, url |-> Shas[k],
                              parents |-> parents[k] ]] :
              dates \in [1..n -> 1..MaxDate],
              parents \in [1..n -> SeqsUpTo(ParentEntries(shape), MaxParents)] } :
          n \in 0..MaxCommits }

CommitInputs == CommitsOfShape("object") \cup CommitsOfShape("string")

InitCommitGraph ==
  /\ phase = "input"
  /\ repoData \in {[NoData EXCEPT !.commits = c] : c \in CommitInputs}
  /\ build = 0
  /\ contributorColors = processData(EmptyMap, <<>>)
  /\ scene = EmptyScene
  /\ Unmounted

ComposeCommitGraph ==
  /\ phase = "input"
  /\ phase' = "composed"
  /\ scene' = [scene EXCEPT !.commitGraph = createCommitGraph(repoData.commits, contributorColors)]
  /\ UNCHANGED <<repoData, build, contributorColors>>
  /\ UNCHANGED componentVars

SpecCommitGraph == InitCommitGraph /\ [][ComposeCommitGraph]_vars

\* commits for the scale rule (lines 515-527): the first commit has any message,
\* with or without a keyword in mixed letter case, and none to MaxParents
\* parents; the others are plain commits with no or MaxParents parents; and
\* optionally one late commit lies so far from the others that a commit after
\* the earliest one can still fall into the first tenth of the range
ReleaseMessage == <<"R", "e", "l", "E", "a", "S", "e", " ", "1">>
VersionMessage == <<"n", "e", "w", " ", "V", "E", "R", "S", "I", "O", "N">>
MilestoneMessage == <<"M", "i", "l", "e", "s", "t", "o", "n", "e">>
ScaleMessages == {PlainMessage, ReleaseMessage, VersionMessage, MilestoneMessage}
LateSha == "z"
LateCommit == [ sha |-> LateSha, date |-> 10 * MaxDate + 2, author |-> Null,
                message |-> PlainMessage, url |-> LateSha, parents |-> <<>> ]

ScaleParent == [shape |-> "object", sha |-> AbsentSha]

ScaleCommitInputs ==
  UNION { { [k \in 1..n |-> [ sha |-> Shas[k], date |-> dates[k], author |-> Null,
                              message |-> IF k = 1 THEN message ELSE PlainMessage,
                              url |-> Shas[k],
                              parents |-> IF k = 1 THEN parents
                                          ELSE IF k \in merges
                                                 THEN [j \in 1..MaxParents |-> ScaleParent]
                                                 ELSE <<>> ]] \o late :
              dates \in [1..n -> 1..MaxDate],
              message \in ScaleMessages,
              parents \in SeqsUpTo({ScaleParent}, MaxParents),
              merges \in SUBSET (2..n),
              late \in {<<>>, <<LateCommit>>} } :
          n \in 1..MaxCommits }

InitCommitScale ==
  /\ phase = "input"
  /\ repoData \in {[NoData EXCEPT !.commits = c] : c \in ScaleCommitInputs}
  /\ build = 0
  /\ contributorColors = processData(EmptyMap, <<>>)
  /\ scene = EmptyScene
  /\ Unmounted

SpecCommitScale == InitCommitScale /\ [][ComposeCommitGraph]_vars

BranchNames == {"main", "dev"}

BranchInputs ==
  SeqsUpTo({[name |-> n, sha |-> x] : n \in BranchNames, x \in {Shas[1], Shas[2], AbsentSha}},
           MaxBranches)

\* commits without parents, in every order of dates
BranchCommitInputs ==
  UNION { { [k \in 1..n |-> [ sha |-> Shas[k], date |-> dates[k], author |-> Null,
                              message |-> PlainMessage, url |-> Shas[k],
                              parents |-> <<>> ]] :
              dates \in [1..n -> 1..MaxDate] } :
          n \in 0..MaxCommits }

InitBranchLabels ==
  /\ phase = "input"
  /\ repoData \in {[NoData EXCEPT !.commits = c, !.branches = b] :
                     c \in BranchCommitInputs, b \in BranchInputs}
  /\ build = 0
  /\ contributorColors = processData(EmptyMap, <<>>)
  /\ scene = EmptyScene
  /\ Unmounted

\* lines 404-407
ComposeBranchLabels ==
  /\ phase = "input"
  /\ phase' = "composed"
  /\ LET graph == createCommitGraph(repoData.commits, contributorColors)
     IN scene' = [scene EXCEPT !.commitGraph = graph,
                               !.branchLabels =
                                  createBranchLabels(repoData.branches, graph.commitObjects)]
  /\ UNCHANGED <<repoData, build, contributorColors>>
  /\ UNCHANGED componentVars

SpecBranchLabels == InitBranchLabels /\ [][ComposeBranchLabels]_vars

LangNames == <<"Go", "Rust", "C", "Zig", "Lua">>
ByteCounts == {0, 1, 3, 700, 2000}

LanguageInputs ==
  UNION { { [k \in 1..n |-> [name |-> LangNames[k], bytes |-> b[k]]] : b \in [1..n -> ByteCounts] } :
          n \in 0..MaxLangs }

InitLanguageDonut ==
  /\ phase = "input"
  /\ repoData \in {[NoData EXCEPT !.languages = l] : l \in LanguageInputs}
  /\ build = 0
  /\ contributorColors = processData(EmptyMap, <<>>)
  /\ scene = EmptyScene
  /\ Unmounted

ComposeLanguageDonut ==
  /\ phase = "input"
  /\ phase' = "composed"
  /\ scene' = [scene EXCEPT !.languageDonut = createLanguageDonut(repoData.languages)]
  /\ UNCHANGED <<repoData, build, contributorColors>>
  /\ UNCHANGED componentVars

SpecLanguageDonut == InitLanguageDonut /\ [][ComposeLanguageDonut]_vars

Logins == <<"alice", "bob", "carol", "dave", "erin">>

ContributorInputs ==
  UNION { { [k \in 1..n |-> [login |-> Logins[k], contributions |-> c[k]]] :
              c \in [1..n -> 0..MaxContribCount] } :
          n \in 0..MaxContributors }

InitContributorSpheres ==
  /\ phase = "input"
  /\ repoData \in {[NoData EXCEPT !.contributors = c] : c \in ContributorInputs}
  /\ build = 0
  /\ contributorColors = processData(EmptyMap, repoData.contributors)
  /\ scene = EmptyScene
  /\ Unmounted

ComposeContributorSpheres ==
  /\ phase = "input"
  /\ phase' = "composed"
  /\ scene' = [scene EXCEPT !.contributorSpheres =
                 createContributorSpheres(repoData.contributors, contributorColors)]
  /\ UNCHANGED <<repoData, build, contributorColors>>
  /\ UNCHANGED componentVars

SpecContributorSpheres == InitContributorSpheres /\ [][ComposeContributorSpheres]_vars

(***************************************************************************)
(* The two side visualizations, composed as createVisualizations does      *)
(* (lines 409-417), on a language map with no contributors or on a         *)
(* contributor list with no languages.                                     *)
(***************************************************************************)
InitSideVisualizations == InitLanguageDonut \/ InitContributorSpheres

ComposeSideVisualizations ==
  /\ phase = "input"
  /\ phase' = "composed"
  /\ scene' = [scene EXCEPT
                 !.contributorSpheres =
                    createContributorSpheres(repoData.contributors, contributorColors),
                 !.languageDonut = createLanguageDonut(repoData.languages)]
  /\ UNCHANGED <<repoData, build, contributorColors>>
  /\ UNCHANGED componentVars

SpecSideVisualizations == InitSideVisualizations /\ [][ComposeSideVisualizations]_vars

(***************************************************************************)
(* Color assignment over repeated data loads: processData and the colors   *)
(* of createLanguageDonut, run again and again on the same color map.      *)
(***************************************************************************)
ColorLogins == {Logins[k] : k \in 1..MaxContributors}

\* lists of distinct logins, in any order
ColorContributorInputs ==
  { [k \in 1..Len(l) |-> [login |-> l[k], contributions |-> 1]] :
      l \in {q \in SeqsUpTo(ColorLogins, MaxContributors) :
               \A i, j \in 1..Len(q) : i # j => q[i] # q[j]} }

ColorLanguageInputs ==
  { <<>>,
    << [name |-> "Go", bytes |-> 3] >>,
    << [name |-> "JavaScript", bytes |-> 700], [name |-> "Go", bytes |-> 3] >>,
    << [name |-> "Python", bytes |-> 1], [name |-> "JavaScript", bytes |-> 3] >> }

InitColors ==
  /\ phase = "input"
  /\ repoData = NoData
  /\ build = 0
  /\ contributorColors = EmptyMap
  /\ scene = EmptyScene
  /\ Unmounted

LoadColors(contributors, languages) ==
  /\ phase' = "composed"
  /\ repoData' = [NoData EXCEPT !.contributors = contributors, !.languages = languages]
  /\ contributorColors' = processData(contributorColors, contributors)
  /\ scene' = [EmptyScene EXCEPT !.languageDonut = createLanguageDonut(languages)]
  /\ UNCHANGED build
  /\ UNCHANGED componentVars

LoadColorsAny ==
  \E contributors \in ColorContributorInputs, languages \in ColorLanguageInputs :
    LoadColors(contributors, languages)

SpecColors == InitColors /\ [][LoadColorsAny]_vars

(***************************************************************************)
(* The component.  The data it is given: one commit, by a contributor or   *)
(* by nobody, up to two contributors, one language.                        *)
(***************************************************************************)
ContributorLists ==
  { <<>>,
    << [login |-> "alice", contributions |-> 5] >>,
    << [login |-> "bob", contributions |-> 2] >>,
    << [login |-> "bob", contributions |-> 2], [login |-> "alice", contributions |-> 5] >> }

RepoDatas ==
  { [ commits |-> << [ sha |-> "a", date |-> 1, author |-> author, message |-> PlainMessage,
                       url |-> "https://github.com/o/r/commit/a",
                       parents |-> <<>> ] >>,
      branches |-> << [name |-> "main", sha |-> "a"], [name |-> "gone", sha |-> AbsentSha] >>,
      contributors |-> contributors,
      languages |-> << [name |-> "Go", bytes |-> 80] >> ] :
      author \in {"alice", Null}, contributors \in ContributorLists }

\* one of them, for the parts of the component that do not read the data
SampleData ==
  CHOOSE data \in RepoDatas :
    /\ Len(data.contributors) = 1
    /\ data.contributors[1].login = "alice"
    /\ data.commits[1].author = "alice"

\* array.sort() sorts the array it is called on
SortedInPlace(array, sorted) == sorted

\* [...array].sort(...) (lines 446, 707): the caller's array after the call that
\* produced sorted; the spread made a copy and the copy was sorted
SortedCopy(array, sorted) == array

\* the caller's data after createVisualizations: createBranchLabels (line 647)
\* and processData (line 393) only read with forEach, and createLanguageDonut
\* filters and sorts the fresh array of Object.entries (lines 782-784)
DataAfter(data) ==
  [ commits |-> SortedCopy(data.commits, SortCommits(data.commits)),
    branches |-> data.branches,
    contributors |-> SortedCopy(data.contributors, SortContributors(data.contributors)),
    languages |-> data.languages ]

\* createVisualizations (lines 401-438)
createVisualizations(data, colors) ==
  [ commitGraph |-> createCommitGraph(data.commits, colors),
    branchLabels |-> createBranchLabels(data.branches,
                                        createCommitGraph(data.commits, colors).commitObjects),
    contributorSpheres |-> createContributorSpheres(data.contributors, colors),
    languageDonut |-> createLanguageDonut(data.languages) ]

\* the meshes of a scene that carry userData.type
TaggedObjects(b, sc) ==
  {[build |-> b, type |-> "commit", idx |-> i, link |-> sc.commitGraph.spheres[i].url] :
      i \in 1..Len(sc.commitGraph.spheres)}
  \cup {[build |-> b, type |-> "contributor_sphere", idx |-> i,
         link |-> sc.contributorSpheres[i].login] : i \in 1..Len(sc.contributorSpheres)}
  \cup {[build |-> b, type |-> "language_segment", idx |-> i, link |-> ""] :
      i \in 1..Len(sc.languageDonut)}
  \cup {[build |-> b, type |-> "repo_representation", idx |-> 1, link |-> ""]}

\* the objects a ray can hit: the tagged meshes, and of the untagged ones the
\* ground plane (a child of the scene) and the time ribbon (a child of the commit group)
Leaves(b, sc) ==
  TaggedObjects(b, sc)
  \cup {[build |-> b, type |-> "ground", idx |-> 1, link |-> ""],
        [build |-> b, type |-> "timeRibbon", idx |-> 1, link |-> ""]}

\* material.emissive at creation: line 502 for a commit, the black default of
\* MeshStandardMaterial (lines 726, 802), none for the MeshBasicMaterial of line 421
InitialEmissive(o) ==
  CASE o.type = "commit" -> EmissiveCreation
    [] o.type = "repo_representation" -> Null
    [] OTHER -> EmissiveBlack

SceneEmissive(b, sc) == [o \in TaggedObjects(b, sc) |-> InitialEmissive(o)]

\* obj.userData && obj.userData.type (line 259)
Tagged(o) ==
  o.type \in {"commit", "contributor_sphere", "language_segment", "repo_representation"}

\* obj.parent (lines 405-436, 481, 557, 746, 817); the parent of the scene is null
Parent(o) ==
  CASE o.type \in {"commit", "timeRibbon"} ->
         [build |-> o.build, type |-> "commitGroup", idx |-> 1, link |-> ""]
    [] o.type = "contributor_sphere" ->
         [build |-> o.build, type |-> "contributorGroup", idx |-> 1, link |-> ""]
    [] o.type = "language_segment" ->
         [build |-> o.build, type |-> "languageDonut", idx |-> 1, link |-> ""]
    [] o.type = "scene" -> NoObject
    [] OTHER -> [build |-> o.build, type |-> "scene", idx |-> 1, link |-> ""]

\* lines 259-261
RECURSIVE NearestTagged(_)
NearestTagged(o) ==
  IF o = NoObject THEN NoObject
  ELSE IF Tagged(o) THEN o ELSE NearestTagged(Parent(o))

\* the first hit alone decides
FirstHitOnly(intersects) ==
  IF intersects = <<>> THEN NoObject ELSE NearestTagged(Head(intersects))

\* lines 255-266
RECURSIVE FirstInteractable(_)
FirstInteractable(intersects) ==
  IF intersects = <<>> THEN NoObject
  ELSE IF NearestTagged(Head(intersects)) # NoObject THEN NearestTagged(Head(intersects))
       ELSE FirstInteractable(Tail(intersects))

(***************************************************************************)
(* requestAnimationFrame: a callback is [id, kind, owner, tr].  kind       *)
(* "render" is animate, owned by the build that started the loop; kind     *)
(* "camera" is the animateCamera closure of one navigateToView call, tr.   *)
(* Ids are only compared, so a new id is the least one not held anywhere.  *)
(***************************************************************************)
NoTransition == [startPos |-> <<0, 0, 0>>, startTarget |-> <<0, 0, 0>>,
                 endPos |-> <<0, 0, 0>>, endTarget |-> <<0, 0, 0>>, startTime |-> 0]

Ids(queue) == {queue[i].id : i \in 1..Len(queue)}

FreshId(used) ==
  CHOOSE i \in 1..(Cardinality(used) + 1) : i \notin used /\ \A j \in 1..(i - 1) : j \in used

\* cancelAnimationFrame(id)
RECURSIVE Cancel(_, _)
Cancel(queue, id) ==
  IF queue = <<>> THEN <<>>
  ELSE IF Head(queue).id = id THEN Cancel(Tail(queue), id)
       ELSE <<Head(queue)>> \o Cancel(Tail(queue), id)

(***************************************************************************)
(* navigateToView / animateCamera (lines 917-955).                         *)
(***************************************************************************)
duration == 1000

\* the times between two frames, in ms
FrameSteps == {40, 90}

\* progress without the clip at 1
ProgressUnclipped(elapsed) == elapsed

\* elapsed clipped to duration: progress = Math.min(elapsed / duration, 1) is
\* Progress(elapsed) / duration
Progress(elapsed) == Min2(elapsed, duration)

\* the second branch without its last factor: -1 + (4 - 2 * progress)
EaseProgressShort(p) ==
  IF 2 * p < duration THEN 2 * p * p
  ELSE (4 * duration - 2 * p) * duration - duration * duration

\* easeProgress (lines 939-941) times duration^2, as a function of progress
\* times duration
EaseProgress(p) ==
  IF 2 * p < duration THEN 2 * p * p
  ELSE 4 * duration * p - 2 * p * p - duration * duration

\* Vector3.lerpVectors(v1, v2, alpha): v1 + (v2 - v1) * alpha, per coordinate
LerpVectors(v1, v2, ease) ==
  [i \in 1..3 |-> v1[i] + ((v2[i] - v1[i]) * ease) \div (duration * duration)]

\* one run of animateCamera at time t (lines 934-951): the camera position and
\* the orbit target it writes.  controls.update() with no drag pending leaves both.
CameraPosAt(tr, t) == LerpVectors(tr.startPos, tr.endPos, EaseProgress(Progress(t - tr.startTime)))
TargetAt(tr, t) ==
  LerpVectors(tr.startTarget, tr.endTarget, EaseProgress(Progress(t - tr.startTime)))
\* progress <= 1
ReschedulesInclusive(tr, t) == Progress(t - tr.startTime) <= duration

\* progress < 1 (line 948)
Reschedules(tr, t) == Progress(t - tr.startTime) < duration

(***************************************************************************)
(* One animation frame: the browser runs the callbacks pending at its      *)
(* start, in the order they were requested; what they request runs in the  *)
(* next frame.  st is [pos, target, rendered, next, ref]: the camera       *)
(* position, the orbit target, the last rendered position, the callbacks   *)
(* requested so far and animationFrameRef.current.                         *)
(***************************************************************************)
RECURSIVE RunCallbacks(_, _, _, _)
RunCallbacks(queue, k, st, t) ==
  IF k > Len(queue) THEN st
  ELSE LET cb == queue[k]
           id == FreshId({queue[i].id : i \in (k + 1)..Len(queue)} \cup Ids(st.next) \cup {st.ref})
       IN IF cb.kind = "render"
            \* animate (lines 958-1001): render, then request the next frame
            THEN RunCallbacks(queue, k + 1,
                   [st EXCEPT !.rendered = st.pos,
                              !.next = Append(@, [cb EXCEPT !.id = id]),
                              !.ref = id], t)
            \* animateCamera (lines 934-951)
            ELSE RunCallbacks(queue, k + 1,
                   [st EXCEPT !.pos = CameraPosAt(cb.tr, t),
                              !.target = TargetAt(cb.tr, t),
                              !.next = IF Reschedules(cb.tr, t)
                                         THEN Append(@, [cb EXCEPT !.id = id]) ELSE @], t)

Frame ==
  /\ rafQueue # <<>>
  /\ LET st == RunCallbacks(rafQueue, 1,
                 [pos |-> cameraPos, target |-> controlsTarget, rendered |-> rendered,
                  next |-> <<>>, ref |-> animationFrameRef], now)
     IN /\ cameraPos' = st.pos
        /\ controlsTarget' = st.target
        /\ rendered' = st.rendered
        /\ rafQueue' = st.next
        /\ animationFrameRef' = st.ref
  /\ UNCHANGED <<phase, dataVars, domVars, hoverVars, activeView, now,
                 navVars, colorCall>>

\* time passes
Tick ==
  /\ now < MaxTime
  /\ now' = now + TickMs
  /\ UNCHANGED <<phase, dataVars, domVars, hoverVars, cameraVars, loopVars,
                 navVars, colorCall>>

(***************************************************************************)
(* The [repoData] effect (lines 74-226).                                   *)
(***************************************************************************)
\* the backgrounds of a navigation button (lines 880, 890, 894, 903, 905)
ActiveBackground == "rgba(0, 120, 255, 0.6)"
InactiveBackground == "rgba(20, 40, 60, 0.6)"
HoverBackground == "rgba(0, 120, 255, 0.8)"

ViewSet == {Views[i] : i \in 1..Len(Views)}

\* activeView === view.id ? ... : ... (lines 880, 894)
ButtonBackground(active, view) ==
  IF active = view THEN ActiveBackground ELSE InactiveBackground

\* createNavigationUI (lines 854-914), called in a render whose activeView is active
createNavigationUI(active) == [view \in ViewSet |-> ButtonBackground(active, view)]

Canvas(b) == [kind |-> "canvas", build |-> b]
LabelOverlay(b) == [kind |-> "labels", build |-> b]
NavControls(b) == [kind |-> "nav", build |-> b]

\* parent.removeChild(child)
RECURSIVE RemoveChild(_, _)
RemoveChild(children, child) ==
  IF children = <<>> THEN <<>>
  ELSE IF Head(children) = child THEN Tail(children)
       ELSE <<Head(children)>> \o RemoveChild(Tail(children), child)

\* a cleanup that cancels nothing
CleanupQueueNoCancel == rafQueue

\* the cleanup (lines 209-225): what it leaves of the frame queue and of the container
CleanupQueue == IF animationFrameRef # 0 THEN Cancel(rafQueue, animationFrameRef) ELSE rafQueue
CleanupContainer == RemoveChild(RemoveChild(container, Canvas(build)), LabelOverlay(build))

\* the effect body (lines 75-206), run as build b on data, with the frame queue
\* and the container as the cleanup (if any) left them
EffectBody(b, data, queue, children) ==
  /\ build' = b
  /\ repoData' = data
  /\ contributorColors' = processData(contributorColors, data.contributors)
  /\ scene' = createVisualizations(data, contributorColors')
  /\ emissive' = SceneEmissive(b, scene')
  /\ hoverLabels' = <<>>
  /\ cameraPos' = CAMERA_PRESETS.overview.position
  /\ controlsTarget' = <<0, 20, 0>>
  /\ container' = children \o <<Canvas(b), LabelOverlay(b), NavControls(b)>>
  \* createNavigationUI() (line 203): the new bar lies over the ones before it
  /\ navButtons' = createNavigationUI(activeView)
  /\ navActiveView' = activeView
  /\ pointerOn' = "none"
  \* animate() (line 206): the first render pass and the first request
  /\ rendered' = cameraPos'
  /\ LET id == FreshId(Ids(queue) \cup {animationFrameRef})
     IN /\ rafQueue' = Append(queue, [id |-> id, kind |-> "render", owner |-> b,
                                       tr |-> NoTransition])
        /\ animationFrameRef' = id

\* the component is mounted: all three effects run
Mount(data) ==
  /\ phase = "initial"
  /\ phase' = "mounted"
  /\ EffectBody(1, data, rafQueue, container)
  /\ controlsLive' = controlsLive \cup {1}
  /\ handler' = [registered |-> TRUE, hovered |-> hoveredObject]
  /\ UNCHANGED <<hoverLabelRef, hoveredObject, underPointer, tooltip, lastOpen, activeView, now,
                 colorCall>>

\* the repoData prop changes: the cleanup of the previous run, then the effect again
ChangeData(data) ==
  /\ phase = "mounted"
  /\ build < MaxLoads
  /\ EffectBody(build + 1, data, CleanupQueue, CleanupContainer)
  /\ controlsLive' = (controlsLive \ {build}) \cup {build + 1}
  /\ UNCHANGED <<phase, hoverLabelRef, hoveredObject, handler, underPointer, tooltip, lastOpen,
                 activeView, now,
                 colorCall>>

\* the component is unmounted: the cleanups of the effects run.  React detaches
\* containerRef before or after the cleanup of a passive effect, by version:
\* refAttached says whether containerRef.current is still the element.
Unmount(refAttached) ==
  /\ phase = "mounted"
  /\ phase' = "unmounted"
  /\ rafQueue' = CleanupQueue
  /\ container' = IF refAttached THEN CleanupContainer ELSE container
  /\ controlsLive' = controlsLive \ {build}
  /\ handler' = [registered |-> FALSE, hovered |-> NoObject]
  /\ UNCHANGED <<dataVars, emissive, hoverLabels, hoverLabelRef, hoveredObject, underPointer,
                 tooltip, lastOpen, cameraVars, animationFrameRef, now,
                 navVars, colorCall>>

(***************************************************************************)
(* Scene composition on all four inputs, and what the caller's data is     *)
(* after it.                                                               *)
(***************************************************************************)
CompositionInputs ==
  { [ commits |-> c,
      branches |-> << [name |-> "main", sha |-> Shas[1]], [name |-> "gone", sha |-> AbsentSha] >>,
      contributors |-> k,
      languages |-> l ] :
      c \in BranchCommitInputs, k \in ContributorInputs,
      l \in {<<>>, << [name |-> "Go", bytes |-> 3], [name |-> "Rust", bytes |-> 700] >>} }

InitComposition ==
  /\ phase = "input"
  /\ repoData \in CompositionInputs
  /\ build = 0
  /\ contributorColors = processData(EmptyMap, repoData.contributors)
  /\ scene = EmptyScene
  /\ Unmounted

ComposeScene ==
  /\ phase = "input"
  /\ phase' = "composed"
  /\ scene' = createVisualizations(repoData, contributorColors)
  /\ repoData' = DataAfter(repoData)
  /\ UNCHANGED <<build, contributorColors>>
  /\ UNCHANGED componentVars

SpecComposition == InitComposition /\ [][ComposeScene]_vars

(***************************************************************************)
(* The navigation buttons (lines 897-906) and navigateToView (917-955).    *)
(***************************************************************************)
CameraCallbacks == {i \in 1..Len(rafQueue) : rafQueue[i].kind = "camera"}

\* a click on the button of view: the first animateCamera runs in the click
SelectView(view) ==
  /\ phase = "mounted"
  /\ Cardinality(CameraCallbacks) < MaxTransitions
  /\ activeView' = view
  \* lines 902-905
  /\ navButtons' = [v \in ViewSet |-> IF v = view THEN ActiveBackground ELSE InactiveBackground]
  /\ LET tr == [startPos |-> cameraPos, startTarget |-> controlsTarget,
                endPos |-> CAMERA_PRESETS[view].position,
                endTarget |-> CAMERA_PRESETS[view].target,
                startTime |-> now]
         id == FreshId(Ids(rafQueue) \cup {animationFrameRef})
     IN /\ cameraPos' = CameraPosAt(tr, now)
        /\ controlsTarget' = TargetAt(tr, now)
        /\ rafQueue' = IF Reschedules(tr, now)
                         THEN Append(rafQueue, [id |-> id, kind |-> "camera", owner |-> build,
                                                tr |-> tr])
                         ELSE rafQueue
  /\ UNCHANGED <<phase, dataVars, domVars, hoverVars, rendered, animationFrameRef, now,
                 navActiveView, pointerOn, colorCall>>

\* mouseenter on the button of view (lines 889-891)
MouseEnter(view) ==
  /\ phase = "mounted"
  /\ pointerOn = "none"
  /\ pointerOn' = view
  /\ navButtons' = [navButtons EXCEPT ![view] = HoverBackground]
  /\ UNCHANGED <<phase, dataVars, domVars, hoverVars, cameraVars, loopVars, now, navActiveView,
                 colorCall>>

\* mouseleave from the button the pointer is on (lines 893-895): the listener
\* reads the activeView of the render that created the bar
MouseLeave ==
  /\ phase = "mounted"
  /\ pointerOn # "none"
  /\ pointerOn' = "none"
  /\ navButtons' = [navButtons EXCEPT ![pointerOn] = ButtonBackground(navActiveView, pointerOn)]
  /\ UNCHANGED <<phase, dataVars, domVars, hoverVars, cameraVars, loopVars, now, navActiveView,
                 colorCall>>

(***************************************************************************)
(* The pointer handlers (lines 244-388).  They are registered by an effect *)
(* that depends on hoveredObject: the registered pair reads the            *)
(* hoveredObject of the render that registered it, until the component     *)
(* renders again with the new state and the effect replaces the pair.      *)
(***************************************************************************)
\* sceneRef.current.remove(hoverLabelRef.current) (line 270)
SceneRemove(labels, label) ==
  IF label.scene = build THEN RemoveChild(labels, label) ELSE labels

\* material.emissive.setHex(hex) on obj, if its material has an emissive
\* (lines 276-285, 289-298); an object of a discarded scene is not in the model
SetEmissive(em, obj, hex) ==
  IF obj \in DOMAIN em /\ em[obj] # Null THEN [em EXCEPT ![obj] = hex] ELSE em

\* object.position, the position in the frame of the parent: a commit on the
\* helix (lines 510-541; the random jitter of lines 532-535, which is part of
\* the position the label copies, is left out), a contributor sphere on the
\* grid (lines 717-739), a language segment (line 809), the icosahedron
\* (line 430)
LocalPosition(obj, sc) ==
  CASE obj.type = "commit" ->
         << (HELIX_RADIUS * CosTwelfth(obj.idx - 1)) \div 1000,
            HELIX_START_Y + ((obj.idx - 1) * HELIX_PITCH) \div COMMITS_PER_LOOP,
            (HELIX_RADIUS * SinTwelfth(obj.idx - 1)) \div 1000 >>
    [] obj.type = "contributor_sphere" ->
         LET n == Len(sc.contributorSpheres)
             gridCols == CeilSqrt(n)
             rows == (n + gridCols - 1) \div gridCols
             sphere == sc.contributorSpheres[obj.idx]
         IN << sphere.col * CONTRIBUTOR_GRID_SPACING * 1000
                 - ((gridCols - 1) * CONTRIBUTOR_GRID_SPACING * 1000) \div 2,
               sphere.radius,
               sphere.row * CONTRIBUTOR_GRID_SPACING * 1000
                 - ((rows - 1) * CONTRIBUTOR_GRID_SPACING * 1000) \div 2 >>
    [] obj.type = "language_segment" -> <<0, 0 - DONUT_EXTRUDE_DEPTH \div 2, 0>>
    [] obj.type = "repo_representation" -> <<0, HELIX_START_Y - 5000, 0>>
    [] OTHER -> <<0, 0, 0>>

\* the rotation about the x axis by the tilt of the donut group (line 416)
TiltX(v) ==
  << v[1],
     (v[2] * CosTiltE3 - v[3] * SinTiltE3) \div 1000,
     (v[2] * SinTiltE3 + v[3] * CosTiltE3) \div 1000 >>

\* object.getWorldPosition(): the position under the transform of the parent
\* group (lines 404-405, 410-417, 435); the scene itself is not transformed
WorldPosition(obj, sc) ==
  LET local == LocalPosition(obj, sc)
  IN CASE obj.type = "contributor_sphere" ->
            <<local[1] + SIDE_VIS_X_OFFSET, local[2] + 5000, local[3] + SIDE_VIS_Z_POSITION>>
       [] obj.type = "language_segment" ->
            << TiltX(local)[1] - SIDE_VIS_X_OFFSET, TiltX(local)[2] + 5000,
               TiltX(local)[3] + SIDE_VIS_Z_POSITION >>
       [] OTHER -> local

\* lines 1162-1175: what is added to the y of the label
LabelRise(obj, sc) ==
  CASE obj.type = "commit" -> COMMIT_RADIUS * 6
    [] obj.type = "contributor_sphere" -> sc.contributorSpheres[obj.idx].radius * 2
    [] obj.type = "language_segment" -> 8000
    [] obj.type = "repo_representation" -> (ICOSAHEDRON_RADIUS * 18) \div 10
    [] OTHER -> 0

\* createHoverDescription (lines 1019-1178): a label for each of the four types,
\* at a copy of object.position (line 1159) raised by type; the caller adds it
\* to the scene (line 304), so that position is its world position
createHoverDescription(obj) ==
  [ for |-> obj, scene |-> build,
    position |-> << LocalPosition(obj, scene)[1],
                    LocalPosition(obj, scene)[2] + LabelRise(obj, scene),
                    LocalPosition(obj, scene)[3] >> ]

\* handlePointerMove (lines 245-368): intersects is what the ray cast returns,
\* nearest first, and pointer the position of the event
PointerMove(intersects, pointer) ==
  /\ phase = "mounted"
  /\ handler.registered
  /\ \E newlyHovered \in {FirstInteractable(intersects)} :
     LET closureHovered == handler.hovered
         changed == closureHovered # newlyHovered
         dropLabel == changed /\ hoverLabelRef # NoLabel
         labels1 == IF dropLabel THEN SceneRemove(hoverLabels, hoverLabelRef) ELSE hoverLabels
         ref1 == IF dropLabel THEN NoLabel ELSE hoverLabelRef
         emissive1 == IF changed /\ closureHovered # NoObject
                        THEN SetEmissive(emissive, closureHovered, EmissiveBlack)
                        ELSE emissive
     IN /\ underPointer' = newlyHovered
        /\ lastOpen' = NoOpen
        /\ hoveredObject' = IF changed THEN newlyHovered ELSE hoveredObject
        /\ IF changed /\ newlyHovered # NoObject
             THEN /\ emissive' = SetEmissive(emissive1, newlyHovered, EmissiveGlow)
                  /\ hoverLabels' = Append(labels1, createHoverDescription(newlyHovered))
                  /\ hoverLabelRef' = createHoverDescription(newlyHovered)
                  /\ tooltip' = [display |-> TRUE, content |-> newlyHovered, at |-> pointer]
             ELSE /\ emissive' = emissive1
                  /\ hoverLabels' = labels1
                  /\ hoverLabelRef' = ref1
                  /\ tooltip' = IF changed THEN [tooltip EXCEPT !.display = FALSE]
                                ELSE IF newlyHovered # NoObject
                                       THEN [tooltip EXCEPT !.at = pointer]
                                       ELSE tooltip
  /\ UNCHANGED <<phase, dataVars, domVars, handler, cameraVars, loopVars, now,
                 navVars, colorCall>>

\* handlePointerClick (lines 370-379)
Click ==
  /\ phase = "mounted"
  /\ handler.registered
  /\ LET closureHovered == handler.hovered
     IN lastOpen' =
          IF closureHovered # NoObject /\ closureHovered.type = "commit"
               /\ ~Falsy(closureHovered.link)
            THEN [clicked |-> TRUE, kind |-> "commit url", value |-> closureHovered.link]
          ELSE IF closureHovered # NoObject /\ closureHovered.type = "contributor_sphere"
                    /\ ~Falsy(closureHovered.link)
            THEN [clicked |-> TRUE, kind |-> "profile of", value |-> closureHovered.link]
          ELSE [clicked |-> TRUE, kind |-> "none", value |-> ""]
  /\ UNCHANGED <<phase, dataVars, domVars, emissive, hoverLabels, hoverLabelRef, hoveredObject,
                 handler, underPointer, tooltip, cameraVars, loopVars, now,
                 navVars, colorCall>>

\* the component renders with the hoveredObject last set, and the effect of
\* lines 244-388 replaces the handlers (cleanup, then the body)
Rerender ==
  /\ phase = "mounted"
  /\ handler.hovered # hoveredObject
  /\ handler' = [registered |-> TRUE, hovered |-> hoveredObject]
  /\ UNCHANGED <<phase, dataVars, domVars, emissive, hoverLabels, hoverLabelRef, hoveredObject,
                 underPointer, tooltip, lastOpen, cameraVars, loopVars, now,
                 navVars, colorCall>>

(***************************************************************************)
(* Specifications.                                                         *)
(***************************************************************************)
Init ==
  /\ phase = "initial"
  /\ repoData = NoData
  /\ build = 0
  /\ contributorColors = EmptyMap
  /\ scene = EmptyScene
  /\ Unmounted

MountAny == \E data \in RepoDatas : Mount(data)
MountSample == Mount(SampleData)
ChangeDataAny == \E data \in RepoDatas : ChangeData(data)
UnmountAny == \E refAttached \in BOOLEAN : Unmount(refAttached)
SelectViewAny == \E i \in 1..Len(Views) : SelectView(Views[i])
MouseEnterAny == \E i \in 1..Len(Views) : MouseEnter(Views[i])
PointerMoveAny ==
  \E intersects \in SeqsUpTo(Leaves(build, scene), MaxHits), pointer \in 1..MaxPointer :
    PointerMove(intersects, pointer)

Next ==
  \/ MountAny
  \/ ChangeDataAny
  \/ UnmountAny
  \/ Frame
  \/ Tick
  \/ SelectViewAny
  \/ PointerMoveAny
  \/ Click
  \/ Rerender
  \/ MouseEnterAny
  \/ MouseLeave

Spec == Init /\ [][Next]_vars

\* the lifecycle: builds and teardown, the frames between, and camera transitions
\* requested at one instant
NextLifecycle ==
  \/ MountAny
  \/ ChangeDataAny
  \/ UnmountAny
  \/ Frame
  \/ SelectViewAny

SpecLifecycle == Init /\ [][NextLifecycle]_vars

\* the camera director and the render loop of one build
NextCamera ==
  \/ MountSample
  \/ SelectViewAny
  \/ Tick
  \/ Frame

SpecCamera == Init /\ [][NextCamera]_vars

\* the camera director across a rebuild: the repoData prop changes while
\* transitions are pending
OtherData ==
  CHOOSE data \in RepoDatas :
    /\ Len(data.contributors) = 0
    /\ data.commits[1].author = Null

\* one change of the prop, from the sample to the other data set
Reload == repoData = SampleData /\ ChangeData(OtherData)

NextRebuildCamera ==
  \/ MountSample
  \/ Reload
  \/ SelectViewAny
  \/ Tick
  \/ Frame

SpecRebuildCamera == Init /\ [][NextRebuildCamera]_vars

\* the interaction layer of one build
NextInteraction ==
  \/ MountSample
  \/ PointerMoveAny
  \/ Click
  \/ Rerender

SpecInteraction == Init /\ [][NextInteraction]_vars

\* hover resolution alone: pointer moves and re-renders, no clicks
NextHover ==
  \/ MountSample
  \/ PointerMoveAny
  \/ Rerender

SpecHover == Init /\ [][NextHover]_vars

\* the navigation bar under the pointer: the click is on the button the pointer
\* is on, and the prop changes once
ClickButton == pointerOn # "none" /\ SelectView(pointerOn)

NextNavigation ==
  \/ MountSample
  \/ Reload
  \/ MouseEnterAny
  \/ MouseLeave
  \/ ClickButton

SpecNavigation == Init /\ [][NextNavigation]_vars

\* the interaction layer across a rebuild
NextRebuildInteraction ==
  \/ MountSample
  \/ Reload
  \/ PointerMoveAny
  \/ Click
  \/ Rerender

SpecRebuildInteraction == Init /\ [][NextRebuildInteraction]_vars

(***************************************************************************)
(* One camera transition on its own: Init draws where the camera and the   *)
(* orbit target are when navigateToView is called and the view asked for,  *)
(* and holds the state after the call; each step is one later run of the   *)
(* animateCamera closure.                                                  *)
(***************************************************************************)
StartPoses ==
  {[position |-> CAMERA_PRESETS[Views[i]].position, target |-> CAMERA_PRESETS[Views[i]].target] :
     i \in 1..Len(Views)}
  \cup {[position |-> <<7, 33, -41>>, target |-> <<-3, 12, 5>>]}

InitTransition ==
  /\ phase = "input"
  /\ repoData = NoData
  /\ build = 0
  /\ contributorColors = EmptyMap
  /\ scene = EmptyScene
  /\ container = <<>>
  /\ controlsLive = {}
  /\ emissive = EmptyMap
  /\ hoverLabels = <<>>
  /\ hoverLabelRef = NoLabel
  /\ hoveredObject = NoObject
  /\ handler = [registered |-> FALSE, hovered |-> NoObject]
  /\ underPointer = NoObject
  /\ tooltip = [display |-> FALSE, content |-> NoObject, at |-> 0]
  /\ lastOpen = NoOpen
  /\ rendered = <<0, 0, 0>>
  /\ animationFrameRef = 0
  /\ now = 0
  /\ navButtons = EmptyMap
  /\ navActiveView = "overview"
  /\ pointerOn = "none"
  /\ colorCall = NoCall
  /\ \E start \in StartPoses, i \in 1..Len(Views) :
       LET tr == [startPos |-> start.position, startTarget |-> start.target,
                  endPos |-> CAMERA_PRESETS[Views[i]].position,
                  endTarget |-> CAMERA_PRESETS[Views[i]].target,
                  startTime |-> 0]
       IN /\ activeView = Views[i]
          /\ cameraPos = CameraPosAt(tr, 0)
          /\ controlsTarget = TargetAt(tr, 0)
          /\ rafQueue = << [id |-> 1, kind |-> "camera", owner |-> 0, tr |-> tr] >>

\* the next frame comes step ms later and runs animateCamera
AnimateCamera(step) ==
  /\ phase = "input"
  /\ now' = now + step
  /\ cameraPos' = CameraPosAt(rafQueue[1].tr, now')
  /\ controlsTarget' = TargetAt(rafQueue[1].tr, now')
  /\ IF Reschedules(rafQueue[1].tr, now')
       THEN UNCHANGED <<phase, rafQueue>>
       ELSE phase' = "composed" /\ rafQueue' = <<>>
  /\ UNCHANGED <<dataVars, domVars, hoverVars, activeView, rendered, animationFrameRef,
                 navVars, colorCall>>

AnimateCameraAny == \E step \in FrameSteps : AnimateCamera(step)

SpecTransition == InitTransition /\ [][AnimateCameraAny]_vars

\* the same, with frames that keep coming: the browser runs a requested callback
SpecTransitionLive ==
  InitTransition /\ [][AnimateCameraAny]_vars /\ WF_vars(AnimateCameraAny)

(***************************************************************************)
(* Claims.                                                                 *)
(***************************************************************************)
InputShas == {repoData.commits[k].sha : k \in 1..Len(repoData.commits)}

\* the (child, parent entry) pairs whose parent sha is a commit of the input
ResolvablePairs ==
  {<<k, j>> \in (1..MaxCommits + 1) \X (1..MaxParents + 1) :
     /\ k <= Len(repoData.commits)
     /\ j <= Len(repoData.commits[k].parents)
     /\ repoData.commits[k].parents[j].sha \in InputShas}

\* C1: createCommitGraph renders one connector tube per (child, parent sha) pair
\* whose parent sha is a commit of the input and none for the others, and one
\* sphere per input commit.
C1_TubePerResolvableParent ==
  phase = "composed" =>
    /\ Len(scene.commitGraph.tubes) = Cardinality(ResolvablePairs)
    /\ Len(scene.commitGraph.spheres) = Len(repoData.commits)

DrawnSweep == SumSeq([i \in 1..Len(scene.languageDonut) |-> scene.languageDonut[i].sweep])
InputBytes == SumSeq([i \in 1..Len(repoData.languages) |-> repoData.languages[i].bytes])
FullTurn == 4 * InputBytes

\* a language with bytes whose sweep bytes / total * 2 pi is below 0.01 rad
BelowThreshold(i) ==
  /\ repoData.languages[i].bytes > 0
  /\ repoData.languages[i].bytes * 62832 < 100 * InputBytes

\* C2: with total bytes > 0, the sweeps of the drawn wedges sum to at most a full
\* turn, and to exactly a full turn when no language with bytes is below the
\* skip threshold.
C2_SweepSum ==
  (phase = "composed" /\ InputBytes > 0) =>
    /\ DrawnSweep <= FullTurn
    /\ (\A i \in 1..Len(repoData.languages) : ~BelowThreshold(i)) => DrawnSweep = FullTurn

\* C2 witness: two wedges are drawn and a third language is skipped as below the
\* threshold, so the drawn sweeps sum to less than a full turn
C2_Witness ==
  /\ phase = "composed"
  /\ InputBytes > 0
  /\ Len(scene.languageDonut) = 2
  /\ \E i \in 1..Len(repoData.languages) : BelowThreshold(i)
  /\ DrawnSweep < FullTurn

Spheres == scene.contributorSpheres

\* C10: the sphere radius is non-decreasing in the contribution count and lies
\* between the minimum and the maximum radius; when all contributors have the
\* same count (all zero included) every sphere has the minimum radius.
C10_RadiusMonotone ==
  phase = "composed" =>
    /\ Len(Spheres) = Len(repoData.contributors)
    /\ \A i, j \in 1..Len(Spheres) :
         Spheres[i].contributions <= Spheres[j].contributions
           => Spheres[i].radius <= Spheres[j].radius
    /\ \A i \in 1..Len(Spheres) : Spheres[i].radius >= 500 /\ Spheres[i].radius <= 4000
    /\ (\A i, j \in 1..Len(repoData.contributors) :
          repoData.contributors[i].contributions = repoData.contributors[j].contributions)
         => \A i \in 1..Len(Spheres) : Spheres[i].radius = 500

\* C10 witness: three contributors with three different counts, given three
\* different radii from the minimum to the maximum
C10_Witness ==
  /\ phase = "composed"
  /\ Len(Spheres) = 3
  /\ Spheres[1].contributions > Spheres[2].contributions
  /\ Spheres[2].contributions > Spheres[3].contributions
  /\ Spheres[1].radius = 4000
  /\ Spheres[2].radius < 4000 /\ Spheres[2].radius > 500
  /\ Spheres[3].radius = 500

CurrentLogins == {repoData.contributors[i].login : i \in 1..Len(repoData.contributors)}
CommitSpheres == scene.commitGraph.spheres

\* C3: on every load, a commit whose author is null or is not a contributor of
\* the data now loaded is drawn in the fallback gray, and the color map holds
\* the logins of the current contributors and the reserved key, no others.
C3_FallbackGray ==
  phase = "mounted" =>
    /\ \A i \in 1..Len(CommitSpheres) :
         CommitSpheres[i].author \notin CurrentLogins => CommitSpheres[i].color = -1
    /\ DOMAIN contributorColors = CurrentLogins \cup {"null"}

Glowing == {o \in DOMAIN emissive : emissive[o] = "0x555555"}

\* C4: whatever the order of pointer moves and re-renders, no object but the one
\* under the pointer carries the hover highlight and no label but the one of the
\* object under the pointer is attached: at most one of each.
C4_SingleHover ==
  /\ Cardinality(Glowing) <= 1
  /\ Len(hoverLabels) <= 1
  /\ \A o \in Glowing : o = underPointer
  /\ \A i \in 1..Len(hoverLabels) : hoverLabels[i].for = underPointer

\* what a click on obj is to give to window.open
ExpectedOpen(obj) ==
  CASE obj.type = "commit" -> [clicked |-> TRUE, kind |-> "commit url", value |-> obj.link]
    [] obj.type = "contributor_sphere" ->
         [clicked |-> TRUE, kind |-> "profile of", value |-> obj.link]
    [] OTHER -> [clicked |-> TRUE, kind |-> "none", value |-> ""]

\* C5: a click opens a URL exactly when the object the most recent pointer move
\* resolved is a commit or a contributor sphere, and the URL is that object's own.
C5_ClickOpensHovered ==
  lastOpen.clicked => lastOpen = ExpectedOpen(underPointer)

Count(kind) == Cardinality({i \in 1..Len(container) : container[i].kind = kind})

\* C6: while mounted the container holds at most one canvas, one label overlay
\* and one navigation element, all of the current build, and only the controls
\* of the current build listen; after unmount nothing is left.
C6_TornDown ==
  /\ phase = "mounted" =>
       /\ Count("canvas") <= 1 /\ Count("labels") <= 1 /\ Count("nav") <= 1
       /\ \A i \in 1..Len(container) : container[i].build = build
       /\ controlsLive \subseteq {build}
  /\ phase = "unmounted" =>
       /\ container = <<>>
       /\ controlsLive = {}
       /\ ~handler.registered

PendingCamera == {i \in 1..Len(rafQueue) : rafQueue[i].kind = "camera"}

\* a camera callback requested in this step
NewTransition(cb) ==
  /\ cb.kind = "camera"
  /\ \A i \in 1..Len(rafQueue) : rafQueue[i].tr # cb.tr

\* C7: once no transition callback is pending, the camera position and the orbit
\* target are the preset of the view selected last (the overview before any
\* selection); and each transition starts from the camera position and the
\* target as they are when it is requested.
C7_AtLastSelected ==
  (phase = "mounted" /\ PendingCamera = {}) =>
    /\ cameraPos = CAMERA_PRESETS[activeView].position
    /\ controlsTarget = CAMERA_PRESETS[activeView].target

C7_StartsLive ==
  \A i \in 1..Len(rafQueue') :
    NewTransition(rafQueue'[i]) =>
      /\ rafQueue'[i].tr.startPos = cameraPos
      /\ rafQueue'[i].tr.startTarget = controlsTarget
      /\ rafQueue'[i].tr.startTime = now

\* C7: with no transition pending the camera and the target are at the preset of
\* the last selection, and every transition starts from the live camera and target
C7_LastSelectionWins == [](C7_AtLastSelected) /\ [][C7_StartsLive]_vars

\* C7 witness: a view other than the overview was selected, its transition has
\* run to its end, and the frame after it was rendered from the preset
C7_Witness ==
  /\ phase = "mounted"
  /\ PendingCamera = {}
  /\ activeView = "languages"
  /\ cameraPos = <<-110, 20, -20>>
  /\ controlsTarget = <<-90, 5, -40>>
  /\ rendered = cameraPos

\* the running transition (SpecTransition holds one)
Running == rafQueue[1].tr
Eased(t) ==
  LET p == IF t - Running.startTime < 1000 THEN t - Running.startTime ELSE 1000
  IN EaseProgress(p)

\* coordinate i of pos lies between a and b
Between(a, x, b) == (a <= x /\ x <= b) \/ (b <= x /\ x <= a)

\* C8: the eased progress is 0 at progress 0 and 1 at progress 1, the camera is
\* at the start position at progress 0 and at the preset at progress 1, and from
\* one run of animateCamera to the next the eased progress does not decrease and
\* the camera does not move back towards the start.
C8_Ends ==
  /\ (phase = "input" /\ now = Running.startTime) =>
       Eased(now) = 0 /\ cameraPos = Running.startPos
  /\ phase = "input" => (Eased(now) >= 0 /\ Eased(now) < 1000 * 1000)
  /\ phase = "composed" =>
       cameraPos = CAMERA_PRESETS[activeView].position
         /\ controlsTarget = CAMERA_PRESETS[activeView].target

C8_Forward ==
  phase = "input" =>
    /\ Eased(now') >= Eased(now)
    /\ phase' = "composed" => Eased(now') = 1000 * 1000
    /\ \A i \in 1..3 :
         /\ Between(cameraPos[i], cameraPos'[i], Running.endPos[i])
         /\ Between(Running.startPos[i], cameraPos'[i], Running.endPos[i])

\* C8: eased progress 0 at the start and 1 at the end, camera at the start and at
\* the preset then, and never a step back on the way
C8_EaseMonotone == [](C8_Ends) /\ [][C8_Forward]_vars

\* C8 witness: a transition between two different places has reached its end
\* in a frame later than 1000 ms after its start, the camera is at the preset
C8_Witness ==
  /\ phase = "composed"
  /\ now > 1000
  /\ activeView = "contributors"
  /\ cameraPos = <<110, 20, -20>>

PendingRender == {i \in 1..Len(rafQueue) : rafQueue[i].kind = "render"}

\* C9: between a build and its teardown exactly one render callback is pending,
\* it is the one of the current build and the one animationFrameRef names;
\* before the mount and after the unmount none is pending.
C9_OneRenderLoop ==
  /\ phase = "mounted" =>
       /\ Cardinality(PendingRender) = 1
       /\ \A i \in PendingRender :
            rafQueue[i].owner = build /\ rafQueue[i].id = animationFrameRef
  /\ phase \in {"initial", "unmounted"} => PendingRender = {}

\* C9 witness: after a rebuild and the unmount, two camera callbacks are still
\* pending and no render callback is
C9_Witness ==
  /\ phase = "unmounted"
  /\ build >= 2
  /\ Cardinality(PendingCamera) = 2
  /\ PendingRender = {}

\* the color of the segment of language name in a donut (a set of at most one)
SegmentColors(donut, name) == {donut[i].color : i \in {j \in 1..Len(donut) : donut[j].name = name}}

\* after a load every contributor has the hue of its own index
C11_HueOfIndex ==
  phase = "composed" =>
    \A i \in 1..Len(repoData.contributors) :
      contributorColors[repoData.contributors[i].login] = ((i - 1) * 17) % 100

\* from one load to the next, a login at the same index keeps its color and a
\* language of the same name keeps its color
C11_SameAgain ==
  /\ \A i \in 1..Min2(Len(repoData.contributors), Len(repoData'.contributors)) :
       repoData.contributors[i].login = repoData'.contributors[i].login =>
         contributorColors'[repoData'.contributors[i].login]
           = contributorColors[repoData.contributors[i].login]
  /\ \A i \in 1..Len(repoData.languages), j \in 1..Len(repoData'.languages) :
       repoData.languages[i].name = repoData'.languages[j].name =>
         \A c \in SegmentColors(scene.languageDonut, repoData.languages[i].name),
            d \in SegmentColors(scene'.languageDonut, repoData.languages[i].name) : c = d

\* C11: color assignment is deterministic: a language name has the same color
\* on every call of stringToColor, and processData gives a login at an index the
\* color of that index, whatever the earlier loads put into the color map.
C11_Deterministic == [](C11_HueOfIndex) /\ [][C11_SameAgain]_vars

\* C11 witness: a load after an earlier one (carol is in the color map and not in
\* this load) in which bob is first and alice second, and the donut has the
\* segment of a name whose hash wraps around 32 bits and ends negative
C11_Witness ==
  /\ phase = "composed"
  /\ Len(repoData.contributors) = 2
  /\ repoData.contributors[1].login = "bob"
  /\ repoData.contributors[2].login = "alice"
  /\ "carol" \in DOMAIN contributorColors
  /\ contributorColors["bob"] = 0
  /\ contributorColors["alice"] = 17
  /\ SegmentColors(scene.languageDonut, "Python")
       = {[hue |-> 244, saturation |-> 9, lightness |-> 13]}
  /\ HashFrom(CharCodes("Python"), 1, 0) < 0

AllSameCount ==
  \A i, j \in 1..Len(repoData.contributors) :
    repoData.contributors[i].contributions = repoData.contributors[j].contributions

\* C12: a language map of zero total bytes gives no wedge and an empty contributor
\* list no sphere, and contributors that all have the same count get a radius
\* that is a number (the minimum), not the result of a division by zero.
C12_Degenerate ==
  phase = "composed" =>
    /\ InputBytes = 0 => scene.languageDonut = <<>>
    /\ repoData.contributors = <<>> => Spheres = <<>>
    /\ (repoData.contributors # <<>> /\ AllSameCount) =>
         /\ Len(Spheres) = Len(repoData.contributors)
         /\ \A i \in 1..Len(Spheres) : Spheres[i].radius > 0

\* C12 witness: no language bytes and three contributors of one count, composed
\* into no wedge and three spheres of the minimum radius
C12_Witness ==
  /\ phase = "composed"
  /\ repoData.languages = <<>>
  /\ scene.languageDonut = <<>>
  /\ Len(repoData.contributors) = 3
  /\ \A i \in 1..3 : repoData.contributors[i].contributions = 4
  /\ \A i \in 1..3 : Spheres[i].radius = 500

BranchLabels == scene.branchLabels
ResolvableBranches ==
  {i \in 1..Len(repoData.branches) : repoData.branches[i].sha \in InputShas}

\* C13: there is one label per input branch whose head sha is a commit of the
\* input, in branch order, at the sphere of that commit; a branch whose head is
\* not among the commits gets none.
C13_LabelPerResolvableBranch ==
  phase = "composed" =>
    /\ Len(BranchLabels) = Cardinality(ResolvableBranches)
    /\ \A i \in 1..Len(BranchLabels) :
         /\ BranchLabels[i].sha \in InputShas
         /\ BranchLabels[i].mesh \in 1..Len(CommitSpheres)
         /\ CommitSpheres[BranchLabels[i].mesh].sha = BranchLabels[i].sha

\* C13 witness: two branches, one on a commit of the input and one on a sha
\* that is not there, and one label
C13_Witness ==
  /\ phase = "composed"
  /\ Len(repoData.commits) = 2
  /\ Len(repoData.branches) = 2
  /\ repoData.branches[1].sha \notin InputShas
  /\ repoData.branches[2].sha \in InputShas
  /\ Len(BranchLabels) = 1
  /\ BranchLabels[1].name = repoData.branches[2].name

\* the transition requested last among those pending
NewestTransition == rafQueue[SetMax(PendingCamera)].tr

\* C14: in a frame rendered while an earlier and a later transition are both
\* pending, the pose rendered is a pose of the later one: the pose it wrote last
\* (the camera before the frame) or the one it writes in this frame.
C14_Step ==
  (Frame /\ PendingRender # {} /\ Cardinality(PendingCamera) >= 2) =>
    rendered' \in {cameraPos, CameraPosAt(NewestTransition, now)}

C14_RendersNewest == [][C14_Step]_vars

\* a callback is pending only while its last run was before 1000 ms
C15_PendingEarly ==
  \A i \in PendingCamera : now - rafQueue[i].tr.startTime < 1000

\* the run at or after 1000 ms writes the preset pose and requests no frame
C15_LastRun ==
  \A i \in PendingCamera :
    now' - rafQueue[i].tr.startTime >= 1000 =>
      /\ rafQueue' = <<>>
      /\ cameraPos' = rafQueue[i].tr.endPos
      /\ controlsTarget' = rafQueue[i].tr.endTarget

\* C15: a transition requests a further frame only while its progress is below
\* 1: the first run at or after 1000 ms writes the preset pose and requests
\* nothing, and with frames coming the transition stops requesting.
C15_Terminates ==
  /\ [](C15_PendingEarly)
  /\ [][C15_LastRun]_vars
  /\ <>(rafQueue = <<>>)

\* C15 witness: a transition to the languages preset has stopped, after more than
\* 1000 ms, at the preset
C15_Witness ==
  /\ rafQueue = <<>>
  /\ activeView = "languages"
  /\ now > 1000
  /\ cameraPos = <<-110, 20, -20>>
  /\ controlsTarget = <<-90, 5, -40>>

\* C16: after every pointer move the tooltip is shown exactly when an object is
\* under the pointer, and what it shows is that object.
C16_TooltipFollows ==
  phase = "mounted" =>
    /\ tooltip.display <=> underPointer # NoObject
    /\ tooltip.display => tooltip.content = underPointer

\* the hovered object, if any, is an object of the scene now shown
C17_HoverOfScene ==
  phase = "mounted" =>
    (hoveredObject # NoObject => hoveredObject \in TaggedObjects(build, scene))

\* a click that opens a URL opens that of an object of the scene now shown
C17_ClickOfScene ==
  (Click /\ lastOpen'.kind # "none") => handler.hovered \in TaggedObjects(build, scene)

\* C17: after a rebuild no hover state of the discarded scene remains: the hovered
\* object is empty or of the new scene, and a click never opens the URL of an
\* object of a discarded scene.
C17_NoStaleHover == [](C17_HoverOfScene) /\ [][C17_ClickOfScene]_vars

\* o and its ancestors, nearest first (the scene graph is three levels deep)
Chain(o) == <<o, Parent(o), Parent(Parent(o)), Parent(Parent(Parent(o)))>>
HasTagged(o) == \E k \in 1..4 : Chain(o)[k] # NoObject /\ Tagged(Chain(o)[k])
NearestTaggedOf(o) == Chain(o)[SetMin({k \in 1..4 : Chain(o)[k] # NoObject /\ Tagged(Chain(o)[k])})]

\* the hover target the hits call for
HoverTarget(intersects) ==
  LET hits == {i \in 1..Len(intersects) : HasTagged(intersects[i])}
  IN IF hits = {} THEN NoObject ELSE NearestTaggedOf(intersects[SetMin(hits)])

C18_Step ==
  \A intersects \in SeqsUpTo(Leaves(build, scene), MaxHits), pointer \in 1..MaxPointer :
    PointerMove(intersects, pointer) => underPointer' = HoverTarget(intersects)

\* C18: the hover target of a pointer move is the nearest tagged ancestor-or-self
\* of the first hit, nearest first, that has one; hits without one are skipped
\* and do not hide a farther tagged object; with no such hit the target is empty.
C18_FirstTaggedHit == [][C18_Step]_vars

\* C18 witness: the contributor sphere is under the pointer
C18_Witness ==
  /\ phase = "mounted"
  /\ underPointer.type = "contributor_sphere"
  /\ hoveredObject = underPointer
  /\ tooltip.content = underPointer

CommitOfSphere(mesh) ==
  CHOOSE c \in {repoData.commits[k] : k \in 1..Len(repoData.commits)} : c.sha = mesh.sha

LoadedDates == {repoData.commits[k].date : k \in 1..Len(repoData.commits)}
LoadedRange == SetMax(LoadedDates) - SetMin(LoadedDates)

\* the author date lies within the first tenth of the observed range; the
\* earliest date does so whatever the length of the range
InEarliestTenth(date) ==
  \/ date = SetMin(LoadedDates)
  \/ (date - SetMin(LoadedDates)) * 10 < LoadedRange

\* the product of the three factors, in thousandths
ScaleProduct(commit) ==
  LET merge == IF Len(commit.parents) > 1 THEN 13 ELSE 10
      significant == IF commit.message \in {ReleaseMessage, VersionMessage, MilestoneMessage}
                       THEN 15 ELSE 10
      early == IF InEarliestTenth(commit.date) THEN 12 ELSE 10
  IN (1000 * merge * significant * early) \div 1000

\* C20: in every non-empty commit set, each sphere's scale is the product of 1.3
\* for more than one parent, 1.5 for a message naming release, version or
\* milestone in any letter case, and 1.2 for an author date within the earliest
\* tenth of the observed range, also when the set has one commit or one date.
C20_ScaleProduct ==
  phase = "composed" =>
    \A i \in 1..Len(CommitSpheres) :
      CommitSpheres[i].scale = ScaleProduct(CommitOfSphere(CommitSpheres[i]))

\* the same rule for the sets whose dates differ
C20_ScaleProductSpread ==
  (phase = "composed" /\ LoadedRange # 0) =>
    \A i \in 1..Len(CommitSpheres) :
      CommitSpheres[i].scale = ScaleProduct(CommitOfSphere(CommitSpheres[i]))

\* a set with differing dates in which all three factors apply to one commit and
\* a commit after the earliest one still lies in the first tenth
C20_SpreadReached ==
  /\ phase = "composed"
  /\ LoadedRange # 0
  /\ \E i \in 1..Len(CommitSpheres) : CommitSpheres[i].scale = 2340
  /\ \E i \in 1..Len(CommitSpheres) :
       /\ CommitOfSphere(CommitSpheres[i]).date # SetMin(LoadedDates)
       /\ CommitSpheres[i].scale = 1200

Wedges == scene.languageDonut

\* the languages of the loaded map that get a wedge: bytes above zero and a
\* sweep of at least 0.01 rad
DrawnLanguages ==
  {i \in 1..Len(repoData.languages) :
     /\ repoData.languages[i].bytes > 0
     /\ repoData.languages[i].bytes * TwoPiE4 >= SkipThresholdE4 * InputBytes}

\* 12 o'clock, a quarter of the full turn
TwelveOClock == FullTurn \div 4

\* C21: the wedges are those of the languages above the skip threshold, in
\* descending byte order; the first starts at 12 o'clock, each later one starts
\* where the one before it ended, each sweeps bytes / total bytes of a full
\* turn, and a skipped language adds no wedge, no label and no angle.
C21_WedgeLayout ==
  (phase = "composed" /\ InputBytes > 0) =>
    /\ Len(Wedges) = Cardinality(DrawnLanguages)
    /\ \A i \in DrawnLanguages :
         \E k \in 1..Len(Wedges) :
           /\ Wedges[k].name = repoData.languages[i].name
           /\ Wedges[k].bytes = repoData.languages[i].bytes
           /\ Wedges[k].sweep * InputBytes = repoData.languages[i].bytes * FullTurn
    /\ Len(Wedges) > 0 => Wedges[1].start = TwelveOClock
    /\ \A k \in 1..(Len(Wedges) - 1) :
         /\ Wedges[k + 1].start = Wedges[k].start + Wedges[k].sweep
         /\ Wedges[k].bytes >= Wedges[k + 1].bytes
    /\ \A k \in 1..Len(Wedges) :
         Wedges[k].label * 2 = Wedges[k].start * 2 + Wedges[k].sweep

\* C21 witness: a map given in ascending byte order with a sub-threshold entry:
\* two wedges, the larger first from 12 o'clock, the smaller from where it ends
C21_Witness ==
  /\ phase = "composed"
  /\ \E i \in 1..Len(repoData.languages) :
       repoData.languages[i].bytes > 0 /\ i \notin DrawnLanguages
  /\ Len(Wedges) = 2
  /\ Wedges[1].bytes > Wedges[2].bytes
  /\ \E i, j \in 1..Len(repoData.languages) :
       /\ i < j
       /\ repoData.languages[i].name = Wedges[2].name
       /\ repoData.languages[j].name = Wedges[1].name
  /\ Wedges[1].start = TwelveOClock
  /\ Wedges[2].start = TwelveOClock + Wedges[1].sweep

\* a pointer move ends the hover of the object the handlers know as hovered
HoverEnds ==
  /\ phase = "mounted"
  /\ hoveredObject # NoObject
  /\ handler.hovered = hoveredObject
  /\ hoveredObject \in DOMAIN emissive
  /\ hoveredObject' # hoveredObject

C23_Step == HoverEnds => emissive'[hoveredObject] = InitialEmissive(hoveredObject)

\* C23: when the hover of an object ends, the object's emissive color is again
\* the one it had before the hover began; for a commit sphere that is the
\* non-black emissive it was created with.
C23_EmissiveRoundTrip == [][C23_Step]_vars

\* the round trip for the objects created with the black default
C23_StepBlack ==
  (HoverEnds /\ InitialEmissive(hoveredObject) = EmissiveBlack) =>
    emissive'[hoveredObject] = EmissiveBlack

C23_RoundTripBlack == [][C23_StepBlack]_vars

\* the hover description label that the current scene shows
LabelShown == phase = "mounted" /\ hoverLabelRef # NoLabel /\ hoverLabelRef.scene = build

\* a label stands directly above an object at world position w
Above(position, w) == position[1] = w[1] /\ position[3] = w[3] /\ position[2] > w[2]

\* C25: for every hoverable type, the hover description label stands in world
\* space directly above the hovered object: the same world x and z, a higher
\* world y, also for the objects inside the offset sub-scene groups.
C25_LabelAbove ==
  LabelShown => Above(hoverLabelRef.position, WorldPosition(hoverLabelRef.for, scene))

\* the same for the objects whose parent is not transformed: commit spheres and
\* the icosahedron
C25_LabelAboveUntransformed ==
  (LabelShown /\ hoverLabelRef.for.type \in {"commit", "repo_representation"}) =>
    Above(hoverLabelRef.position, WorldPosition(hoverLabelRef.for, scene))

\* C24: whenever the pointer rests on no button, exactly one button shows the
\* active background, and it is the button of the view selected last (the
\* overview button before any selection).
C24_OneActiveButton ==
  (phase = "mounted" /\ pointerOn = "none") =>
    \A view \in ViewSet : (navButtons[view] = ActiveBackground) <=> (view = activeView)

\* while no view other than the one the bar was created with has been selected
C24_OneActiveButtonUnselected ==
  (phase = "mounted" /\ pointerOn = "none" /\ activeView = navActiveView) =>
    \A view \in ViewSet : (navButtons[view] = ActiveBackground) <=> (view = activeView)

\* the range of a signed 32-bit integer, written without its upper end plus one
InInt32(n) == n >= 0 - 2147483647 - 1 /\ n <= 2147483647

\* next is code + 31 * prev wrapped modulo 2^32: the low 16 bits agree, and for
\* some multiple k * 2^32 the two sides agree modulo two primes near 2^15.5
\* (2^32 is 37103 modulo 46337 and 37453 modulo 46327)
Wrapped32(prev, code, next) ==
  /\ next % 65536 = (31 * (prev % 65536) + code) % 65536
  /\ \E k \in (0 - 16)..16 :
       /\ next % 46337 = (31 * (prev % 46337) + code + k * 37103) % 46337
       /\ next % 46327 = (31 * (prev % 46327) + code + k * 37453) % 46327

C22_Int32 == InInt32(colorCall.hash)

C22_Step ==
  colorCall'.i = colorCall.i + 1 =>
    Wrapped32(colorCall.hash, colorCall.str[colorCall.i + 1], colorCall'.hash)

\* hue in [0, 1) in 360ths, saturation and lightness in [0.5, 1.0] as the
\* twentieths and fortieths added to 0.5
C22_Ranges ==
  colorCall.done =>
    /\ colorCall.color.hue >= 0 /\ colorCall.color.hue < 360
    /\ colorCall.color.saturation >= 0 /\ colorCall.color.saturation <= 10
    /\ colorCall.color.lightness >= 0 /\ colorCall.color.lightness <= 20

\* C22: for every string, the running hash of stringToColor is after each
\* character the signed 32-bit wrap of charCode + 31 * hash, and the color has
\* its hue in [0, 1) and its saturation and lightness in [0.5, 1.0], also for a
\* negative hash.
C22_HashAndRanges == [](C22_Int32 /\ C22_Ranges) /\ [][C22_Step]_vars

\* C22 witness: the hash of "Python" wrapped and ended negative,
\* -1889329924, and its color is hue 244/360, saturation 0.5 + 9/20, lightness
\* 0.5 + 13/40
C22_Witness ==
  /\ colorCall.done
  /\ colorCall.str = <<80, 121, 116, 104, 111, 110>>
  /\ colorCall.hash = 0 - 1889329924
  /\ colorCall.color = [hue |-> 244, saturation |-> 9, lightness |-> 13]

====
